---------------------------- MODULE Spec2Model ----------------------------
(* Model of arduino/codecell-raw-imu/secrets.template.h.                   *)
(*                                                                         *)
(* The header is a guarded list of object-like macro definitions.  What it *)
(* does is decided by the C preprocessor that reads it, so the model is    *)
(* the preprocessor's walk over the file, line by line, inside one         *)
(* translation unit that includes the template and/or a user's edited copy *)
(* of it, followed by the running firmware whose tasks use the macros.     *)
(* A macro body is kept as the preprocessor keeps it: the characters of    *)
(* its replacement list ("8000" is four digits, a string literal carries   *)
(* its quotes).                                                            *)
EXTENDS Integers, Sequences, FiniteSets, TLC

\* ------------------------------------------------------------------ bounds
\* #include directives of the header (template or copy) in one translation unit
MaxIncludes == 3
\* tasks of the firmware that use the macros
NumReaders == 2

Readers == 1..NumReaders

\* ------------------------------------------------ the header, line by line
Quoted(chars) == <<"\"">> \o chars \o <<"\"">>

\* line 10: #define SECRET_SSID "your_wifi_network"
SECRET_SSID ==
  Quoted(<<"y","o","u","r","_","w","i","f","i","_","n","e","t","w","o","r","k">>)

\* line 11: #define SECRET_PASSWORD "your_wifi_password"
SECRET_PASSWORD ==
  Quoted(<<"y","o","u","r","_","w","i","f","i","_","p","a","s","s","w","o","r","d">>)

\* a slip of the pen in the address: a fifth field
SECRET_IP_FiveFields ==
  Quoted(<<"1","9","2",".","1","6","8",".","1",".","1","0","0",".","1">>)

\* line 14: #define SECRET_IP "192.168.1.100"
SECRET_IP ==
  Quoted(<<"1","9","2",".","1","6","8",".","1",".","1","0","0">>)

\* a slip of the pen in the port: one zero too many
SECRET_OUTPORT_ExtraZero ==
  <<"8","0","0","0","0">>

\* line 15: #define SECRET_OUTPORT 8000
SECRET_OUTPORT ==
  <<"8","0","0","0">>

\* the four configuration macros
Names == {"SECRET_SSID", "SECRET_PASSWORD", "SECRET_IP", "SECRET_OUTPORT"}

Files == {"template", "copy"}

\* a guard that names the file it guards
GuardPerFile(f) ==
  IF f = "template" THEN "SECRETS_TEMPLATE_H" ELSE "SECRETS_H"

\* lines 6-7: the guard macro; a copy made as the header comment says
\* ("Copy this file and configure with your network settings") keeps it
GuardOf(f) ==
  "SECRETS_H"

Macros == Names \cup {GuardOf(f) : f \in Files} \cup {GuardPerFile(f) : f \in Files}

Text(k) == [kind |-> k, name |-> "", body |-> <<>>]
Directive(k, n, b) == [kind |-> k, name |-> n, body |-> b]

\* the header with the four replacement lists as parameters
HeaderLines(f, ssid, password, ip, port) ==
  << Text("comment"),                                  \* 1  /*
     Text("comment"),                                  \* 2   * Network ...
     Text("comment"),                                  \* 3   * Copy this file
     Text("comment"),                                  \* 4   */
     Text("blank"),                                    \* 5
     Directive("ifndef", GuardOf(f), <<>>),            \* 6  #ifndef SECRETS_H
     Directive("define", GuardOf(f), <<>>),            \* 7  #define SECRETS_H
     Text("blank"),                                    \* 8
     Text("comment"),                                  \* 9  // WiFi credentials
     Directive("define", "SECRET_SSID", ssid),         \* 10
     Directive("define", "SECRET_PASSWORD", password), \* 11
     Text("blank"),                                    \* 12
     Text("comment"),                                  \* 13 // OSC target ...
     Directive("define", "SECRET_IP", ip),             \* 14
     Directive("define", "SECRET_OUTPORT", port),      \* 15
     Text("blank"),                                    \* 16
     Directive("endif", "", <<>>) >>                   \* 17 #endif

\* the template with its address line lost
TemplateLinesNoIp ==
  [HeaderLines("template", SECRET_SSID, SECRET_PASSWORD, SECRET_IP, SECRET_OUTPORT)
     EXCEPT ![14] = Text("blank")]

\* secrets.template.h as shipped
TemplateLines ==
  HeaderLines("template", SECRET_SSID, SECRET_PASSWORD, SECRET_IP, SECRET_OUTPORT)

\* ------------------------------------------------------ the user's edits
\* values a user may write into the copy; the header checks none of them
SsidChoices == { Quoted(<<"h","o","m","e">>) }
PasswordChoices == { Quoted(<<"p","w","1">>) }
IpChoices ==
  { Quoted(<<"1","0",".","0",".","0",".","7">>),
    Quoted(<<"1","0",".","0",".","0",".","2","5","6">>),
    Quoted(<<"1","0",".","0",".","7">>) }
PortChoices ==
  { <<"9","0","0","0">>, <<"0">>, <<"6","5","5","3","6">> }

Edits ==
  { [n \in Names |->
       CASE n = "SECRET_SSID" -> s
         [] n = "SECRET_PASSWORD" -> p
         [] n = "SECRET_IP" -> i
         [] n = "SECRET_OUTPORT" -> o] :
    s \in SsidChoices, p \in PasswordChoices, i \in IpChoices, o \in PortChoices }

\* a copy in which the port line was left as the template had it
CopyLinesPortKept(e) ==
  HeaderLines("copy", e["SECRET_SSID"], e["SECRET_PASSWORD"], e["SECRET_IP"],
              SECRET_OUTPORT)

\* the copy of the template with all four values changed to e's
CopyLines(e) ==
  HeaderLines("copy", e["SECRET_SSID"], e["SECRET_PASSWORD"], e["SECRET_IP"],
              e["SECRET_OUTPORT"])

VARIABLES
  edited,      \* the four values the user wrote into the copy
  included,    \* the files the translation unit has included so far, in order
  cur,         \* the file being read, or "none"
  line,        \* the next line of cur to process (0 when cur = "none")
  cond,        \* "none" outside #ifndef..#endif, else "taking" or "skipping"
  defs,        \* the macro table: name -> [defined, body, from]
  defCount,    \* how many #define directives took effect, per macro
  afterFirst,  \* the macro table as it stood when the first include ended
  phase,       \* "preprocess", then "run"
  built,       \* the macro table the firmware was built with
  obs          \* what each reader got at its latest use of a macro

vars == <<edited, included, cur, line, cond, defs, defCount, afterFirst,
          phase, built, obs>>

FileLines(f) == IF f = "template" THEN TemplateLines ELSE CopyLines(edited)

NumLines == Len(TemplateLines)

Undefined == [defined |-> FALSE, body |-> <<>>, from |-> "none"]
NoDefs == [m \in Macros |-> Undefined]
Unread == [read |-> FALSE, name |-> "", ok |-> TRUE, val |-> <<>>]

Init ==
  /\ edited \in Edits
  /\ included = <<>>
  /\ cur = "none"
  /\ line = 0
  /\ cond = "none"
  /\ defs = NoDefs
  /\ defCount = [m \in Macros |-> 0]
  /\ afterFirst = [set |-> FALSE, defs |-> NoDefs]
  /\ phase = "preprocess"
  /\ built = NoDefs
  /\ obs = [r \in Readers |-> Unread]

\* --------------------------------------------------------- preprocessing
\* an #include of file f (the template or the copy) in the translation unit
Include(f) ==
  /\ phase = "preprocess"
  /\ cur = "none"
  /\ Len(included) < MaxIncludes
  /\ included' = Append(included, f)
  /\ cur' = f
  /\ line' = 1
  /\ UNCHANGED <<edited, cond, defs, defCount, afterFirst, phase, built, obs>>

AtLine == FileLines(cur)[line]

Reading == phase = "preprocess" /\ cur # "none" /\ line <= NumLines

\* a comment, a blank line, or any line but #endif of a group being skipped
SkipLine ==
  /\ Reading
  /\ \/ AtLine.kind \in {"comment", "blank"}
     \/ cond = "skipping" /\ AtLine.kind # "endif"
  /\ line' = line + 1
  /\ UNCHANGED <<edited, included, cur, cond, defs, defCount, afterFirst,
                 phase, built, obs>>

\* a guard test that takes the group whatever is defined
IfndefAlwaysTaken ==
  /\ Reading
  /\ AtLine.kind = "ifndef"
  /\ cond = "none"
  /\ cond' = "taking"
  /\ line' = line + 1
  /\ UNCHANGED <<edited, included, cur, defs, defCount, afterFirst,
                 phase, built, obs>>

\* line 6: #ifndef SECRETS_H
Ifndef ==
  /\ Reading
  /\ AtLine.kind = "ifndef"
  /\ cond = "none"
  /\ cond' = IF defs[AtLine.name].defined THEN "skipping" ELSE "taking"
  /\ line' = line + 1
  /\ UNCHANGED <<edited, included, cur, defs, defCount, afterFirst,
                 phase, built, obs>>

\* lines 7, 10, 11, 14, 15: #define NAME replacement-list
Define ==
  /\ Reading
  /\ AtLine.kind = "define"
  /\ cond = "taking"
  /\ defs' = [defs EXCEPT ![AtLine.name] =
                [defined |-> TRUE, body |-> AtLine.body, from |-> cur]]
  /\ defCount' = [defCount EXCEPT ![AtLine.name] = @ + 1]
  /\ line' = line + 1
  /\ UNCHANGED <<edited, included, cur, cond, afterFirst, phase, built, obs>>

\* line 17: #endif
Endif ==
  /\ Reading
  /\ AtLine.kind = "endif"
  /\ cond # "none"
  /\ cond' = "none"
  /\ line' = line + 1
  /\ UNCHANGED <<edited, included, cur, defs, defCount, afterFirst,
                 phase, built, obs>>

\* the end of the header: back to the including file
EndOfFile ==
  /\ phase = "preprocess"
  /\ cur # "none"
  /\ line = NumLines + 1
  /\ cur' = "none"
  /\ line' = 0
  /\ afterFirst' = IF afterFirst.set THEN afterFirst
                   ELSE [set |-> TRUE, defs |-> defs]
  /\ UNCHANGED <<edited, included, cond, defs, defCount, phase, built, obs>>

\* the translation unit ends and the firmware is built and started
Build ==
  /\ phase = "preprocess"
  /\ cur = "none"
  /\ Len(included) >= 1
  /\ phase' = "run"
  /\ built' = defs
  /\ UNCHANGED <<edited, included, cur, line, cond, defs, defCount,
                 afterFirst, obs>>

\* ----------------------------------------------------------------- reading
\* --- what the consumer of the values is asked to check (spec, section 3) ---
Digits == {"0","1","2","3","4","5","6","7","8","9"}

DigitValue(c) ==
  CASE c = "0" -> 0 [] c = "1" -> 1 [] c = "2" -> 2 [] c = "3" -> 3
    [] c = "4" -> 4 [] c = "5" -> 5 [] c = "6" -> 6 [] c = "7" -> 7
    [] c = "8" -> 8 [] c = "9" -> 9

IsDecimal(s) == Len(s) >= 1 /\ \A i \in 1..Len(s) : s[i] \in Digits

RECURSIVE DecValue(_)
DecValue(s) ==
  IF s = <<>> THEN 0
  ELSE 10 * DecValue(SubSeq(s, 1, Len(s) - 1)) + DigitValue(s[Len(s)])

IsStringLiteral(b) == Len(b) >= 2 /\ b[1] = "\"" /\ b[Len(b)] = "\""
Unquote(b) == SubSeq(b, 2, Len(b) - 1)

\* the fields of s between the dots
RECURSIVE Fields(_)
Fields(s) ==
  IF \A i \in 1..Len(s) : s[i] # "." THEN << s >>
  ELSE LET d == CHOOSE i \in 1..Len(s) :
                   s[i] = "." /\ \A j \in 1..(i - 1) : s[j] # "."
       IN << SubSeq(s, 1, d - 1) >> \o Fields(SubSeq(s, d + 1, Len(s)))

ValidIPv4(b) ==
  /\ IsStringLiteral(b)
  /\ LET fs == Fields(Unquote(b))
     IN /\ Len(fs) = 4
        /\ \A i \in 1..Len(fs) :
             IsDecimal(fs[i]) /\ Len(fs[i]) <= 3 /\ DecValue(fs[i]) \in 0..255

\* the port as the 16-bit unsigned integer a UDP port is
ToUint16(v) == v % (2 ^ 16)

ValidPort(b) ==
  IsDecimal(b) /\ Len(b) <= 6 /\ DecValue(b) \in 1..65535

\* a use of a macro that refuses a port outside 1..65535
ExpandChecked(n) ==
  [read |-> TRUE, name |-> n,
   ok |-> defs[n].defined /\ (n = "SECRET_OUTPORT" => ValidPort(defs[n].body)),
   val |-> defs[n].body]

\* a use of a macro in the firmware: the name is replaced by its body as it
\* stands; a name that is no macro is left alone and does not compile
Expand(n) ==
  [read |-> TRUE, name |-> n, ok |-> defs[n].defined, val |-> defs[n].body]

\* a read that consumes the value
ReadClears(r, n) ==
  /\ phase = "run"
  /\ obs' = [obs EXCEPT ![r] = Expand(n)]
  /\ defs' = [defs EXCEPT ![n].body = <<>>]
  /\ UNCHANGED <<edited, included, cur, line, cond, defCount, afterFirst,
                 phase, built>>

\* reader r uses macro n
Read(r, n) ==
  /\ phase = "run"
  /\ obs' = [obs EXCEPT ![r] = Expand(n)]
  /\ UNCHANGED <<edited, included, cur, line, cond, defs, defCount,
                 afterFirst, phase, built>>

Next ==
  \/ \E f \in Files : Include(f)
  \/ SkipLine
  \/ Ifndef
  \/ Define
  \/ Endif
  \/ EndOfFile
  \/ Build
  \/ \E r \in Readers, n \in Names : Read(r, n)

Spec == Init /\ [][Next]_vars

\* ------------------------------------------------------------- properties
Guard == GuardOf("template")

Defined == {m \in Macros : defs[m].defined}

\* the replacement list file f gives macro n
BodyIn(f, n) ==
  LET ls == FileLines(f)
  IN ls[CHOOSE i \in 1..Len(ls) : ls[i].kind = "define" /\ ls[i].name = n].body

\* reader r's latest use was of macro n
ReadOf(r, n) == obs[r].read /\ obs[r].name = n

FirstDone == afterFirst.set
FirstIs(f) == Len(included) >= 1 /\ included[1] = f
Both == \E i, j \in 1..Len(included) :
           included[i] = "template" /\ included[j] = "copy"

\* C1: once the template has been read, exactly the four configuration
\* macros are defined besides the guard SECRETS_H, and their values are the
\* documented examples: "your_wifi_network", "your_wifi_password",
\* "192.168.1.100" and 8000.
C1_TemplateDefinesFour ==
  (FirstIs("template") /\ FirstDone) =>
    /\ Defined = {"SECRET_SSID", "SECRET_PASSWORD", "SECRET_IP",
                  "SECRET_OUTPORT", "SECRETS_H"}
    /\ defs["SECRETS_H"].body = <<>>
    /\ defs["SECRET_SSID"].body =
         <<"\"","y","o","u","r","_","w","i","f","i","_",
           "n","e","t","w","o","r","k","\"">>
    /\ defs["SECRET_PASSWORD"].body =
         <<"\"","y","o","u","r","_","w","i","f","i","_",
           "p","a","s","s","w","o","r","d","\"">>
    /\ defs["SECRET_IP"].body =
         <<"\"","1","9","2",".","1","6","8",".","1",".","1","0","0","\"">>
    /\ IsDecimal(defs["SECRET_OUTPORT"].body)
    /\ DecValue(defs["SECRET_OUTPORT"].body) = 8000

C1_Witness ==
  /\ included = <<"template">>
  /\ cur = "none"
  /\ FirstDone
  /\ Cardinality(Defined) = 5

\* C2: while the firmware runs, whatever the readers have read and in
\* whatever interleaving, each of the four macros is defined and still has
\* the value the build gave it (the one its defining file wrote), and every
\* reader, at each use of it, observes exactly that value.
C2_ValuesImmutable ==
  phase = "run" =>
    /\ defs = built
    /\ \A n \in Names :
         /\ defs[n].defined
         /\ defs[n].body = BodyIn(included[1], n)
         /\ \A r \in Readers : ReadOf(r, n) => obs[r].val = built[n].body
         /\ \A r1, r2 \in Readers :
              (ReadOf(r1, n) /\ ReadOf(r2, n)) => obs[r1].val = obs[r2].val

C2_Witness ==
  /\ phase = "run"
  /\ \E n \in Names :
       /\ \A r \in Readers : ReadOf(r, n)
       /\ defs[n].body = built[n].body

\* C3: a step of the running firmware (a read) never fails and changes
\* nothing but the reader's own copy: every value read is a value and not an
\* error, it is the macro's body unvalidated (an out-of-range port is
\* returned as it is), and the macro table, the definition counts and the
\* single state "run" are left as they were.
C3_ReadNeverFailsNoEffect ==
  [][phase = "run" =>
       /\ phase' = "run"
       /\ defs' = defs
       /\ defCount' = defCount
       /\ built' = built
       /\ \A r \in Readers :
            obs'[r].read =>
               (obs'[r].ok /\ obs'[r].val = defs[obs'[r].name].body)]_vars

C3_Witness ==
  /\ phase = "run"
  /\ \E r1, r2 \in Readers :
       /\ ReadOf(r1, "SECRET_OUTPORT") /\ obs[r1].ok
       /\ ~ValidPort(obs[r1].val)
       /\ ReadOf(r2, "SECRET_IP") /\ obs[r2].ok
       /\ ~ValidIPv4(obs[r2].val)

\* C4 as stated: the copy with all four values changed is still a valid
\* configuration (four values defined, the address a dotted quad, the port
\* in 1..65535).
C4_EditedCopyStillValid ==
  (FirstIs("copy") /\ FirstDone) =>
    /\ Names \subseteq Defined
    /\ ValidIPv4(defs["SECRET_IP"].body)
    /\ ValidPort(defs["SECRET_OUTPORT"].body)

\* C4 as amended: the copy with all four values changed still defines
\* exactly the four macros and the guard, each once, with the values the
\* user wrote; its address and port are valid exactly when the values the
\* user wrote are, for the header checks nothing.
C4_EditedCopyKeepsStructure ==
  (FirstIs("copy") /\ FirstDone) =>
    /\ Defined = Names \cup {Guard}
    /\ \A n \in Names :
         /\ defCount[n] = 1
         /\ defs[n].body = edited[n]
         /\ defs[n].body # BodyIn("template", n)
    /\ ValidIPv4(defs["SECRET_IP"].body) <=> ValidIPv4(edited["SECRET_IP"])
    /\ ValidPort(defs["SECRET_OUTPORT"].body) <=>
         ValidPort(edited["SECRET_OUTPORT"])

C4_Witness ==
  /\ included = <<"copy">>
  /\ cur = "none"
  /\ FirstDone
  /\ ValidIPv4(defs["SECRET_IP"].body)
  /\ ValidPort(defs["SECRET_OUTPORT"].body)
  /\ \A n \in Names : defs[n].from = "copy"

\* C5: the template's SECRET_IP is a valid IPv4 dotted quad: a string of
\* exactly four dot-separated decimal fields, each in 0..255; so is what a
\* reader gets for it.
C5_TemplateIpIsDottedQuad ==
  FirstIs("template") =>
    /\ FirstDone => ValidIPv4(defs["SECRET_IP"].body)
    /\ \A r \in Readers :
         ReadOf(r, "SECRET_IP") => ValidIPv4(obs[r].val)

C5_Witness ==
  /\ FirstIs("template")
  /\ phase = "run"
  /\ \E r \in Readers :
       /\ ReadOf(r, "SECRET_IP")
       /\ Len(Fields(Unquote(obs[r].val))) = 4

\* C6: the template's SECRET_OUTPORT is a decimal integer in 1..65535: it is
\* not zero and a 16-bit unsigned integer holds it unchanged.
C6_TemplatePortInRange ==
  (FirstIs("template") /\ FirstDone) =>
    LET b == defs["SECRET_OUTPORT"].body
    IN /\ IsDecimal(b)
       /\ DecValue(b) \in 1..65535
       /\ DecValue(b) # 0
       /\ ToUint16(DecValue(b)) = DecValue(b)

C6_Witness ==
  /\ FirstIs("template")
  /\ phase = "run"
  /\ \E r \in Readers :
       /\ ReadOf(r, "SECRET_OUTPORT")
       /\ DecValue(obs[r].val) = 8000

\* C8: in a translation unit that includes the template n >= 1 times and
\* nothing else, the macro table after any number of further includes is the
\* table the first include left, and the guard and each of the four values
\* has been defined exactly once.
C8_IncludeIdempotent ==
  ((\A i \in 1..Len(included) : included[i] = "template") /\ FirstDone) =>
    /\ defs = afterFirst.defs
    /\ Defined = Names \cup {Guard}
    /\ \A m \in Names \cup {Guard} : defCount[m] = 1

C8_Witness ==
  /\ Len(included) >= 3
  /\ \A i \in 1..Len(included) : included[i] = "template"
  /\ cur = "none"
  /\ \A m \in Names \cup {Guard} : defCount[m] = 1

\* C9: the template and an edited copy share the guard SECRETS_H, so when
\* one translation unit includes both, in either order, the four values are
\* those of the file included first, each defined once and by that file: the
\* second file's definitions are skipped, and readers get the first file's
\* values (the placeholders, when the template came first).
C9_FirstIncludeWins ==
  /\ GuardOf("template") = GuardOf("copy")
  /\ (Both /\ FirstDone) =>
       \A n \in Names :
         /\ defs[n].from = included[1]
         /\ defs[n].body = BodyIn(included[1], n)
         /\ defCount[n] = 1
         /\ \A r \in Readers :
              ReadOf(r, n) => obs[r].val = BodyIn(included[1], n)

C9_Witness ==
  /\ included = <<"template", "copy">>
  /\ phase = "run"
  /\ \A n \in Names :
       /\ defs[n].body = BodyIn("template", n)
       /\ defs[n].body # edited[n]
  /\ \E r \in Readers :
       ReadOf(r, "SECRET_IP") /\ obs[r].val # edited["SECRET_IP"]

=============================================================================
